---- MODULE Spec2Model ----
(***************************************************************************)
(* imgui-rs (src/src/lib.rs): the ImGui context wrapper, the frame session  *)
(* handle Ui with the process-wide CURRENT_UI slot, and the push/pop stacks *)
(* of the engine reached through Ui.                                        *)
(*                                                                          *)
(* The program is single threaded.  One step of the model is one call of a  *)
(* public function of lib.rs, except where the function hands control to    *)
(* code of the caller (the body of a with_* helper, the callback of         *)
(* Ui::render) or where a claim speaks about the state between two          *)
(* statements of one function (set_ini_filename, set_log_filename, Drop for *)
(* ImGui): there the call is split at that point.                           *)
(*                                                                          *)
(* Rust's borrow rules are part of the code (they decide which call         *)
(* sequences compile) and appear as guards: ImGui::frame takes &'a mut self *)
(* and returns Ui<'ui> with 'a: 'ui, so while the returned Ui lives no      *)
(* other &mut self method of that ImGui can be called and the ImGui cannot  *)
(* be dropped.  Ui::current_ui is an unsafe fn with no such restriction.    *)
(***************************************************************************)
EXTENDS Integers, Sequences, FiniteSets, TLC

\* ------------------------------------------------------------------ bounds
MaxContexts == 2      \* calls of ImGui::init in one run
MaxSessions == 2      \* calls of ImGui::frame in one run
MaxBufs     == 2      \* ImString buffers allocated in one run
MaxDepth    == 2      \* values on the engine's stacks at one time, and so the
                      \* longest slice given to a with_* helper
MaxNest     == 1      \* with_* bodies nested in each other
MaxLists    == 2      \* draw lists in the engine's draw data
MaxIdx      == 2      \* indices in one draw list

Null == 0             \* ptr::null(), Option::None, a NULL engine context

Kinds == {"id", "width", "style", "color"}
Ids    == {1}        \* identifiers given to push_id / with_id
Widths == {1}        \* widths given to push_item_width / with_item_width
Vals   == {1, 2}     \* style variables and color variables

\* all sequences over S of length 0..n
RECURSIVE SeqsUpTo(_, _)
SeqsUpTo(S, n) ==
    IF n = 0 THEN {<<>>}
    ELSE LET shorter == SeqsUpTo(S, n - 1)
         IN  shorter \cup {Append(s, v) : s \in {t \in shorter : Len(t) = n - 1}, v \in S}

VARIABLES
    contexts,     \* engine contexts created by sys::CreateContext and not yet destroyed
    GImGui,       \* the engine's current context (sys::SetCurrentContext), Null if none
    nextCtx,      \* number of contexts created so far + 1
    imgui,        \* live ImGui values, by their field context: [ini_filename, log_filename]
    io,           \* ImGuiIO of each live context: [IniFilename, LogFilename]
    heap,         \* string buffers allocated and not freed
    nextBuf,      \* number of buffers allocated so far + 1
    pending,      \* position inside set_ini_filename / set_log_filename / Drop for ImGui
    CURRENT_UI,   \* static mut CURRENT_UI: Null or the session it holds
    sessions,     \* every session begun by ImGui::frame: [imgui, renders]
    handles,      \* sessions whose Ui value (returned by frame) the caller still holds
    rendering,    \* the session whose Ui::render is inside its callback, or Null
    rendered,     \* sessions whose Ui::render has returned
    stack,        \* the stacks of the engine's current context, by kind
    net,          \* pushes minus pops issued on each kind since the engine's NewFrame
    callStack,    \* the helpers whose body is running, outermost first
    scopes,       \* the Begin..End scopes open in the engine's current context
    drawData,     \* ImDrawData of the engine's current context (sys::GetDrawData)
    views,        \* sessions whose DrawData (moved into the render callback) is held
    iter,         \* the DrawListIterator the render callback holds: <<>> or <<it>>
    lastOp,       \* the call made by the last step and, if it ended a with_* helper, how
    status        \* "running", "aborted" (fatal engine condition), "crashed" (NULL context)

vars == <<contexts, GImGui, nextCtx, imgui, io, heap, nextBuf, pending, CURRENT_UI,
          sessions, handles, rendering, rendered, stack, net, callStack,
          scopes, drawData, views, iter, lastOp, status>>

lifeVars  == <<contexts, GImGui, nextCtx, imgui, io, heap, nextBuf, pending>>
sessVars  == <<CURRENT_UI, sessions, handles, rendering, rendered>>
stackVars == <<stack, net, callStack, scopes>>
drawVars  == <<drawData, views, iter>>

NoPending == [self |-> Null, field |-> "none", value |-> Null]
NoExit    == [h |-> "none", how |-> "none", main |-> <<>>, colors |-> <<>>,
              pushed |-> 0, popped |-> 0, before |-> [k \in Kinds |-> <<>>]]
Call(name, sid, via) ==
    [name |-> name, sid |-> sid, via |-> via, args |-> <<>>, exit |-> NoExit]
EmptyStacks == [k \in Kinds |-> <<>>]

\* ------------------------------------------------------------ the engine's draw data
\* One ImDrawList: its command, index and vertex buffers.  A command draws ElemCount
\* indices; an index is a position (from 0) in the vertex buffer of the same list.
MkList(idx, vtx) ==
    [CmdBuffer |-> IF idx = <<>> THEN <<>> ELSE <<[ElemCount |-> Len(idx)]>>,
     IdxBuffer |-> idx, VtxBuffer |-> vtx]
VtxBuffers == {<<>>, <<1>>, <<1, 2>>}
EngineLists ==
    UNION {{MkList(idx, vtx) : idx \in SeqsUpTo(0..(Len(vtx) - 1), MaxIdx)} : vtx \in VtxBuffers}

RECURSIVE SumLen(_, _)
SumLen(lists, field) ==
    IF lists = <<>> THEN 0 ELSE Len(Head(lists)[field]) + SumLen(Tail(lists), field)

\* ImDrawData as the engine keeps it: the totals are the sums over its lists.  The
\* Valid flag says whether the contents are this frame's output.
EngineDrawData(valid, lists) ==
    [Valid |-> valid, CmdLists |-> lists, CmdListsCount |-> Len(lists),
     TotalVtxCount |-> SumLen(lists, "VtxBuffer"),
     TotalIdxCount |-> SumLen(lists, "IdxBuffer")]

\* sys::NewFrame clears the draw data
ClearedDrawData == EngineDrawData(FALSE, <<>>)
\* what sys::Render may leave in the draw data
RenderOutputs == {EngineDrawData(v, ls) : v \in BOOLEAN, ls \in SeqsUpTo(EngineLists, MaxLists)}
OneRenderOutput == {EngineDrawData(TRUE, <<>>)}

\* sys::ImDrawData_DeIndexAllBuffers: each list gets one vertex per index, in index
\* order, and the identity index buffer.
Identity(n) == [j \in 1..n |-> j - 1]
EngineDeIndexList(l) ==
    [l EXCEPT !.VtxBuffer = [j \in 1..Len(l.IdxBuffer) |-> l.VtxBuffer[l.IdxBuffer[j] + 1]],
              !.IdxBuffer = Identity(Len(l.IdxBuffer))]
EngineDeIndexAllBuffers(raw) ==
    EngineDrawData(raw.Valid, [i \in 1..Len(raw.CmdLists) |-> EngineDeIndexList(raw.CmdLists[i])])
ZeroNet     == [k \in Kinds |-> 0]

Init ==
    /\ contexts = {}
    /\ GImGui = Null
    /\ nextCtx = 1
    /\ imgui = <<>>
    /\ io = <<>>
    /\ heap = {}
    /\ nextBuf = 1
    /\ pending = NoPending
    /\ CURRENT_UI = Null
    /\ sessions = <<>>
    /\ handles = {}
    /\ rendering = Null
    /\ rendered = {}
    /\ stack = EmptyStacks
    /\ net = ZeroNet
    /\ callStack = <<>>
    /\ scopes = <<>>
    /\ drawData = ClearedDrawData
    /\ views = {}
    /\ iter = <<>>
    /\ lastOp = Call("none", Null, "none")
    /\ status = "running"

\* c_float values that are quotients of two integers, in lowest terms.  The u32
\* arguments of frame are far below 2^24, where `as c_float` is exact.
RECURSIVE GCD(_, _)
GCD(a, b) == IF b = 0 THEN a ELSE GCD(b, a % b)
Ratio(n, d) == [num |-> n \div GCD(n, d), den |-> d \div GCD(n, d)]
Zero == [num |-> 0, den |-> 1]
One == [num |-> 1, den |-> 1]

\* the fields of ImGuiIO the wrapper writes, as the engine creates them
NewIO == [IniFilename |-> Null, LogFilename |-> Null,
          DisplaySize |-> <<0, 0>>, DisplayFramebufferScale |-> <<One, One>>,
          DeltaTime |-> 0, MousePos |-> 0]

\* f without the key c
Without(f, c) == [x \in DOMAIN f \ {c} |-> f[x]]

\* The caller is between two calls: not inside a with_* body, a render callback
\* or a filename setter.
Idle ==
    /\ status = "running"
    /\ callStack = <<>>
    /\ rendering = Null
    /\ pending = NoPending

\* The ImGui c is mutably borrowed by a live Ui (frame: &'a mut self -> Ui<'ui>, 'a: 'ui).
Borrowed(c) ==
    \E s \in handles \cup ({rendering} \ {Null}) : sessions[s].imgui = c

\* ------------------------------------------------------------ the engine
\* sys::CreateContext(NULL) followed by sys::SetCurrentContext(ctx)
EngineCreateCurrent(ctx) ==
    /\ contexts' = contexts \cup {ctx}
    /\ GImGui' = ctx

\* sys::DestroyContext(ctx): the context is freed; it stops being current
EngineDestroy(ctx) ==
    /\ contexts' = contexts \ {ctx}
    /\ GImGui' = IF GImGui = ctx THEN Null ELSE GImGui

\* ------------------------------------------------------------ ImGui
\* ImGui::init
ImGui_init ==
    /\ Idle
    /\ nextCtx <= MaxContexts
    /\ LET ctx == nextCtx IN
        /\ EngineCreateCurrent(ctx)
        /\ imgui' = imgui @@ (ctx :> [ini_filename |-> Null, log_filename |-> Null])
        /\ io' = io @@ (ctx :> NewIO)
        /\ nextCtx' = nextCtx + 1
        \* the stacks modelled are those of the current context, now the new one
        /\ stack' = EmptyStacks
        /\ scopes' = <<>>
        /\ net' = ZeroNet
    /\ lastOp' = Call("init", Null, "none")
    /\ drawData' = ClearedDrawData
    /\ UNCHANGED <<views, iter, heap, nextBuf, pending, sessVars, callStack, status>>

\* ImGui::init when sys::CreateContext yields no context: init has no check, so the
\* NULL context is made current and an ImGui holding it is returned.
ImGui_init_null ==
    /\ Idle
    /\ Null \notin DOMAIN imgui
    /\ GImGui' = Null
    /\ imgui' = imgui @@ (Null :> [ini_filename |-> Null, log_filename |-> Null])
    /\ stack' = EmptyStacks
    /\ scopes' = <<>>
    /\ net' = ZeroNet
    /\ lastOp' = Call("init", Null, "no_context")
    /\ drawData' = ClearedDrawData
    /\ UNCHANGED <<views, iter, contexts, nextCtx, io, heap, nextBuf, pending, sessVars,
                   callStack, status>>

\* a drop that leaves the slot as it is
drop_slot_keep(slot) == slot

\* CURRENT_UI after the first statement of Drop for ImGui
drop_slot(slot) == Null

\* impl Drop for ImGui, first statement: CURRENT_UI = None.
ImGui_drop(c) ==
    /\ Idle
    /\ c \in DOMAIN imgui
    /\ ~Borrowed(c)
    /\ CURRENT_UI' = drop_slot(CURRENT_UI)
    /\ pending' = [self |-> c, field |-> "drop", value |-> Null]
    /\ lastOp' = Call("drop_imgui", Null, "none")
    /\ UNCHANGED <<drawVars, contexts, GImGui, nextCtx, imgui, io, heap, nextBuf,
                   sessions, handles, rendering, rendered, stackVars, status>>

\* impl Drop for ImGui, second statement: sys::DestroyContext(self.context); then the
\* fields ini_filename and log_filename are dropped.
ImGui_drop_destroy ==
    /\ status = "running"
    /\ pending.field = "drop"
    /\ LET c == pending.self IN
        /\ EngineDestroy(c)
        /\ io' = Without(io, c)
        /\ heap' = heap \ {imgui[c].ini_filename, imgui[c].log_filename}
        /\ imgui' = Without(imgui, c)
        /\ stack' = IF GImGui = c THEN EmptyStacks ELSE stack
        /\ scopes' = IF GImGui = c THEN <<>> ELSE scopes
        /\ net' = IF GImGui = c THEN ZeroNet ELSE net
        /\ drawData' = IF GImGui = c THEN ClearedDrawData ELSE drawData
    /\ pending' = NoPending
    /\ lastOp' = Call("drop_imgui_return", Null, "none")
    /\ UNCHANGED <<views, iter, nextCtx, nextBuf, sessVars, callStack, status>>

\* self.io_mut() is &mut *sys::GetIO(): the IO of the engine's CURRENT context,
\* whichever ImGui it is called on.  With no current context it is a NULL access.
NullAccess(name) ==
    /\ GImGui = Null
    /\ status' = "crashed"
    /\ lastOp' = Call(name, Null, "none")
    /\ UNCHANGED <<drawVars, lifeVars, sessVars, stackVars>>

\* the pointer written by the match in set_ini_filename / set_log_filename
filename_ptr(value) == value

IoField(field) == IF field = "ini_filename" THEN "IniFilename" ELSE "LogFilename"

\* First half of set_ini_filename / set_log_filename(value): io.<Field> = value's pointer.
\* some says whether value is Some(ImString) (a buffer allocated by the caller) or None.
SetFilenameWrite(c, field, some) ==
    /\ Idle
    /\ c \in DOMAIN imgui
    /\ ~Borrowed(c)
    /\ GImGui # Null
    /\ some => nextBuf <= MaxBufs
    /\ LET value == IF some THEN nextBuf ELSE Null IN
        /\ heap' = IF some THEN heap \cup {value} ELSE heap
        /\ nextBuf' = IF some THEN nextBuf + 1 ELSE nextBuf
        /\ io' = [io EXCEPT ![GImGui][IoField(field)] = filename_ptr(value)]
        /\ pending' = [self |-> c, field |-> field, value |-> value]
    /\ lastOp' = Call("set_filename_write", Null, "none")
    /\ UNCHANGED <<drawVars, contexts, GImGui, nextCtx, imgui, sessVars, stackVars, status>>

\* Second half: self.<field> = value; the assignment drops the old Option<ImString>.
SetFilenameStore ==
    /\ status = "running"
    /\ pending.field \in {"ini_filename", "log_filename"}
    /\ LET c == pending.self
           f == pending.field
       IN /\ heap' = heap \ ({imgui[c][f]} \ {pending.value})
          /\ imgui' = [imgui EXCEPT ![c][f] = pending.value]
    /\ pending' = NoPending
    /\ lastOp' = Call("set_filename_return", Null, "none")
    /\ UNCHANGED <<drawVars, contexts, GImGui, nextCtx, io, nextBuf, sessVars, stackVars, status>>

SetFilenameNull ==
    /\ Idle
    /\ \E c \in DOMAIN imgui : ~Borrowed(c)
    /\ NullAccess("set_filename_write")

\* ------------------------------------------------------------ input
\* the pointer positions given to set_mouse_pos
MousePositions == {1}

\* ImGui::set_mouse_pos(&mut self, x, y); set_mouse_down, set_mouse_wheel, set_key_* and
\* add_input_character have the same receiver and write other fields of the same IO.
ImGui_set_mouse_pos(c, x) ==
    /\ Idle
    /\ c \in DOMAIN imgui
    /\ ~Borrowed(c)
    /\ GImGui # Null
    /\ io' = [io EXCEPT ![GImGui].MousePos = x]
    /\ lastOp' = Call("set_mouse_pos", Null, "none")
    /\ UNCHANGED <<drawVars, contexts, GImGui, nextCtx, imgui, heap, nextBuf, pending,
                   sessVars, stackVars, status>>

\* ImGui::input_state(&'a mut self) -> UiInputState<'ui>: the engine updates its
\* capture flags; the UiInputState is dropped before the caller's next call.
ImGui_input_state(c) ==
    /\ Idle
    /\ c \in DOMAIN imgui
    /\ ~Borrowed(c)
    /\ GImGui # Null
    /\ lastOp' = Call("input_state", Null, "none")
    /\ UNCHANGED <<drawVars, lifeVars, sessVars, stackVars, status>>

ImGui_input_null ==
    /\ Idle
    /\ \E c \in DOMAIN imgui : ~Borrowed(c)
    /\ NullAccess("set_mouse_pos")

\* ------------------------------------------------------------ sessions
\* a frame that sets the slot only when it is empty
frame_slot_keep(slot, sid) == IF slot = Null THEN sid ELSE slot

\* CURRENT_UI = Some(Ui { imgui: .. }) in ImGui::frame
frame_slot(slot, sid) == sid

\* a scale that tests the pixel size instead of the logical size
frame_scale_by_pixels(pixels, points) == IF pixels > 0 THEN Ratio(pixels, points) ELSE Zero

\* io.DisplayFramebufferScale.x / .y in ImGui::frame
frame_scale(pixels, points) == IF points > 0 THEN Ratio(pixels, points) ELSE Zero

\* the sizes and the delta time given to ImGui::frame
Sizes == {0, 1, 2}
FrameArgs == (Sizes \X Sizes) \X (Sizes \X Sizes) \X {1}
OneFrameArgs == {<<<<1, 1>>, <<1, 1>>, 1>>}

\* The statements of ImGui::frame, each acting on what the ones before it left:
\* st.io is the IO of the engine's current context, st.slot is CURRENT_UI, and st.seen
\* lists, for every sys::NewFrame() of the call, what the engine found at that moment.
\* the block `let io = self.io_mut(); io.DisplaySize.x = ..; .. io.DeltaTime = ..`
frame_write_io(st, size_points, size_pixels, delta_time) ==
    [st EXCEPT !.io = [@ EXCEPT !.DisplaySize = size_points,
                                !.DisplayFramebufferScale =
                                    <<frame_scale(size_pixels[1], size_points[1]),
                                      frame_scale(size_pixels[2], size_points[2])>>,
                                !.DeltaTime = delta_time]]
\* sys::NewFrame()
frame_new_frame(st) ==
    [st EXCEPT !.seen = Append(@, [DisplaySize |-> st.io.DisplaySize,
                                   DisplayFramebufferScale |-> st.io.DisplayFramebufferScale,
                                   DeltaTime |-> st.io.DeltaTime,
                                   slot |-> st.slot])]
\* CURRENT_UI = Some(Ui { .. })
frame_set_slot(st, sid) == [st EXCEPT !.slot = frame_slot(@, sid)]

\* a frame that calls sys::NewFrame() before it writes the IO
frame_body_new_frame_first(st, sid, size_points, size_pixels, delta_time) ==
    frame_set_slot(frame_write_io(frame_new_frame(st), size_points, size_pixels, delta_time), sid)

\* the body of ImGui::frame
frame_body(st, sid, size_points, size_pixels, delta_time) ==
    frame_set_slot(frame_new_frame(frame_write_io(st, size_points, size_pixels, delta_time)), sid)

\* ImGui::frame: io is written, sys::NewFrame(), CURRENT_UI is set, the Ui is returned
ImGui_frame(c, size_points, size_pixels, delta_time) ==
    /\ Idle
    /\ c \in DOMAIN imgui
    /\ ~Borrowed(c)
    /\ GImGui # Null
    /\ Len(sessions) < MaxSessions
    /\ LET sid == Len(sessions) + 1
           st == frame_body([io |-> io[GImGui], slot |-> CURRENT_UI, seen |-> <<>>],
                            sid, size_points, size_pixels, delta_time)
       IN
        /\ io' = [io EXCEPT ![GImGui] = st.io]
        /\ sessions' = Append(sessions, [imgui |-> c, renders |-> 0])
        /\ CURRENT_UI' = st.slot
        /\ handles' = handles \cup {sid}
        \* args: the arguments, what sys::NewFrame found, and the IO before the call
        /\ lastOp' = [Call("frame", sid, "none") EXCEPT
                         !.args = <<size_points, size_pixels, delta_time,
                                    st.seen, io[GImGui]>>]
    \* sys::NewFrame() starts the engine's frame with empty stacks and no draw data
    /\ stack' = EmptyStacks
    /\ scopes' = <<>>
    /\ net' = ZeroNet
    /\ drawData' = ClearedDrawData
    /\ UNCHANGED <<views, iter, contexts, GImGui, nextCtx, imgui, heap, nextBuf, pending,
                   rendering, rendered, callStack, status>>

ImGui_frame_null ==
    /\ Idle
    /\ Len(sessions) < MaxSessions
    /\ \E c \in DOMAIN imgui : ~Borrowed(c)
    /\ NullAccess("frame")

\* A Ui value goes out of scope without render: Ui has no Drop impl.
Ui_drop(sid) ==
    /\ Idle
    /\ sid \in handles
    /\ handles' = handles \ {sid}
    /\ lastOp' = Call("drop_ui", sid, "none")
    /\ UNCHANGED <<drawVars, lifeVars, CURRENT_UI, sessions, rendering, rendered, stackVars, status>>

\* The wrapper's view of the engine's draw data.
\* DrawData::is_valid, draw_list_count, total_vtx_count, total_idx_count
is_valid(raw) == raw.Valid
draw_list_count(raw) == raw.CmdListsCount
\* a total_vtx_count that reads the other total
total_vtx_count_of_idx(raw) == raw.TotalIdxCount
total_vtx_count(raw) == raw.TotalVtxCount
total_idx_count(raw) == raw.TotalIdxCount

\* the DrawData handed to the callback: DrawData { raw: &mut *sys::GetDrawData() }
render_draw_data(raw) == raw

\* The engine calls of Ui::render ahead of the callback, each acting on what the one
\* before it left: st.renders counts the sys::Render() calls of this render, st.fetched
\* lists, for every sys::GetDrawData() of it, how many sys::Render() calls came before.
render_engine_render(st) == [st EXCEPT !.renders = @ + 1]
render_get_draw_data(st) == [st EXCEPT !.fetched = Append(@, st.renders)]

\* a render that fetches the draw data before the engine's render step
render_prologue_fetch_first(st) == render_engine_render(render_get_draw_data(st))

\* Ui::render: sys::Render(); let draw_data = DrawData { raw: &mut *sys::GetDrawData() };
render_prologue(st) == render_get_draw_data(render_engine_render(st))

\* what render returns for the callback's result: `f(&self, draw_data)?; ..; Ok(())`
render_result(result) == result

\* Ui::render(self, f), up to the call of f: sys::Render() leaves `output` in the
\* engine's draw data, sys::GetDrawData(), then f(&self, draw_data) runs with the Ui
\* and the DrawData moved into it.
Ui_render_call(sid, output) ==
    /\ Idle
    /\ sid \in handles
    /\ GImGui # Null
    /\ handles' = handles \ {sid}
    /\ rendering' = sid
    /\ LET st == render_prologue([renders |-> 0, fetched |-> <<>>]) IN
        /\ sessions' = [sessions EXCEPT ![sid].renders = @ + st.renders]
        /\ lastOp' = [Call("render_call", sid, "handle") EXCEPT
                         !.args = <<st.renders, st.fetched>>]
    /\ drawData' = render_draw_data(output)
    /\ views' = views \cup {sid}
    /\ iter' = <<>>
    /\ UNCHANGED <<lifeVars, CURRENT_UI, rendered, stackVars, status>>

Ui_render_null ==
    /\ Idle
    /\ handles # {}
    /\ NullAccess("render_call")

\* a render that empties the slot whatever the callback returned
render_slot_always(slot, result) == Null

\* CURRENT_UI after `f(&self, draw_data)?; CURRENT_UI = None;` for the callback's result
render_slot(slot, result) == IF result = "Ok" THEN Null ELSE slot

\* a callback that keeps the DrawData it was given
callback_views_kept(held, sid) == held

\* The DrawData is moved into f, whose type is for<'r, 's> FnOnce(&'r Ui, DrawData<'s>):
\* it cannot be stored anywhere that outlives the call, nor can an iterator or a
\* DrawList borrowed from it, so all are gone when f returns.
callback_views(held, sid) == held \ {sid}

\* Ui::render from the return of f to its own return; self (the Ui) is dropped.
Ui_render_return(result) ==
    /\ status = "running"
    /\ rendering # Null
    /\ callStack = <<>>
    /\ CURRENT_UI' = render_slot(CURRENT_UI, result)
    /\ rendered' = rendered \cup {rendering}
    /\ lastOp' = [Call("render_return", rendering, result) EXCEPT
                     !.args = <<render_result(result)>>]
    /\ views' = callback_views(views, rendering)
    /\ iter' = IF rendering \in views' THEN iter ELSE <<>>
    /\ rendering' = Null
    /\ UNCHANGED <<drawData, lifeVars, sessions, handles, stackVars, status>>

\* ------------------------------------------------------------ draw data in the callback
\* a slice that is one list short
cmd_lists_short(data) ==
    SubSeq(data.CmdLists, 1, IF data.CmdListsCount > 0 THEN data.CmdListsCount - 1 ELSE 0)

\* cmd_lists in into_iter: slice::from_raw_parts(data.CmdLists, data.CmdListsCount)
cmd_lists(data) == SubSeq(data.CmdLists, 1, data.CmdListsCount)

\* IntoIterator for &DrawData: the iterator of that slice.  rest is what the iterator
\* has still to go over, out what next has returned, ended whether next returned None.
into_iter(raw) == [rest |-> cmd_lists(raw), out |-> <<>>, ended |-> FALSE]

\* the DrawList built by next from one list of the engine
DrawList(ptr) ==
    [cmd_buffer |-> ptr.CmdBuffer, idx_buffer |-> ptr.IdxBuffer, vtx_buffer |-> ptr.VtxBuffer]

\* DrawListIterator::next: self.iter.next().map(..)
next(it) ==
    IF it.rest = <<>> THEN [it EXCEPT !.ended = TRUE]
    ELSE [it EXCEPT !.rest = Tail(it.rest), !.out = Append(it.out, DrawList(Head(it.rest)))]

\* a deindex_all_buffers that does not call the engine
deindex_all_buffers_skipped(raw) == raw

\* DrawData::deindex_all_buffers
deindex_all_buffers(raw) == EngineDeIndexAllBuffers(raw)

\* the callback of render holds the DrawData of the session being rendered
InCallback ==
    /\ status = "running"
    /\ rendering # Null
    /\ rendering \in views
    /\ callStack = <<>>

\* (&draw_data).into_iter() in the callback
DrawData_into_iter ==
    /\ InCallback
    /\ iter' = <<into_iter(drawData)>>
    /\ lastOp' = Call("into_iter", rendering, "callback")
    /\ UNCHANGED <<drawData, views, lifeVars, sessVars, stackVars, status>>

\* iterator.next() in the callback
DrawListIterator_next ==
    /\ InCallback
    /\ iter # <<>>
    /\ iter' = <<next(iter[1])>>
    /\ lastOp' = Call("next", rendering, "callback")
    /\ UNCHANGED <<drawData, views, lifeVars, sessVars, stackVars, status>>

\* draw_data.deindex_all_buffers() in the callback; it takes &mut self, so no iterator
\* or DrawList (which borrow the DrawData) is alive.
DrawData_deindex_all_buffers ==
    /\ InCallback
    /\ drawData' = deindex_all_buffers(drawData)
    /\ iter' = <<>>
    /\ lastOp' = Call("deindex_all_buffers", rendering, "callback")
    /\ UNCHANGED <<views, lifeVars, sessVars, stackVars, status>>

\* ------------------------------------------------------------ stacks
\* The engine's push of one value on one of its stacks
\* (sys::PushID1/2/3, sys::PushItemWidth, sys::PushStyleVar, sys::PushStyleColor1).
EnginePush(stk, v) == Append(stk, v)

\* The engine's pop of n values (sys::PopID, sys::PopItemWidth, sys::PopStyleVar(n),
\* sys::PopStyleColor(n)): fatal when fewer than n values are on the stack.
EnginePop(stk, n) ==
    IF n > Len(stk)
    THEN [stack |-> stk, fatal |-> TRUE]
    ELSE [stack |-> SubSeq(stk, 1, Len(stk) - n), fatal |-> FALSE]

Depth == Len(stack["id"]) + Len(stack["width"]) + Len(stack["style"]) + Len(stack["color"])

\* Ui::push_id, Ui::pop_id, Ui::push_item_width, Ui::pop_item_width: what each does
\* to the stack it forwards to.
\* a pop_id that skips the engine call on an empty stack
pop_id_guarded(stk) ==
    IF stk = <<>> THEN [stack |-> stk, fatal |-> FALSE] ELSE EnginePop(stk, 1)
\* a push_item_width that forwards twice
push_item_width_twice(stk, width) == EnginePush(EnginePush(stk, width), width)

push_id(stk, id) == EnginePush(stk, id)
pop_id(stk) == EnginePop(stk, 1)
push_item_width(stk, width) == EnginePush(stk, width)
pop_item_width(stk) == EnginePop(stk, 1)

\* The sessions a Ui operation can be issued through, and how the caller reaches them:
\* the Ui returned by frame, the &Ui handed to the render callback, or the reference
\* returned by the unsafe Ui::current_ui() (CURRENT_UI.as_ref()).
current_ui == CURRENT_UI

Reach ==
    {<<s, "handle">> : s \in handles}
      \cup {<<s, "callback">> : s \in {rendering} \ {Null}}
      \cup {<<s, "current_ui">> : s \in {current_ui} \ {Null}}

\* the sessions reached through a Ui value the caller holds
Held == {<<s, "handle">> : s \in handles}

\* A Ui operation may be issued between two calls, inside a with_* body or inside the
\* render callback, never inside a filename setter.
CanOperate ==
    /\ status = "running"
    /\ pending = NoPending

\* a push on stack k through session r[1]
PushOp(name, k, r, after) ==
    /\ CanOperate
    /\ GImGui # Null
    /\ Depth < MaxDepth
    /\ stack' = [stack EXCEPT ![k] = after]
    /\ net' = [net EXCEPT ![k] = @ + 1]
    /\ lastOp' = Call(name, r[1], r[2])
    /\ UNCHANGED <<drawVars, lifeVars, sessVars, callStack, scopes, status>>

\* a pop on stack k through session r[1]; res is the engine's answer
PopOp(name, k, r, res) ==
    /\ CanOperate
    /\ GImGui # Null
    /\ stack' = [stack EXCEPT ![k] = res.stack]
    /\ net' = [net EXCEPT ![k] = @ - 1]
    /\ status' = IF res.fatal THEN "aborted" ELSE status
    /\ lastOp' = Call(name, r[1], r[2])
    /\ UNCHANGED <<drawVars, lifeVars, sessVars, callStack, scopes>>

Ui_push_id(r, id) == PushOp("push_id", "id", r, push_id(stack["id"], id))
Ui_pop_id(r) == PopOp("pop_id", "id", r, pop_id(stack["id"]))
Ui_push_item_width(r, w) == PushOp("push_item_width", "width", r, push_item_width(stack["width"], w))
Ui_pop_item_width(r) == PopOp("pop_item_width", "width", r, pop_item_width(stack["width"]))

\* any Ui operation while the engine has no current context
Ui_op_null ==
    /\ CanOperate
    /\ Reach # {}
    /\ NullAccess("ui_op")

\* ------------------------------------------------------------ with_* helpers
\* the slices given to with_style_vars, with_color_vars, with_style_and_color_vars
Slices == SeqsUpTo(Vals, MaxDepth)
\* the pairs of slices given to with_style_and_color_vars
SlicePairs == {p \in Slices \X Slices : Len(p[1]) + Len(p[2]) <= MaxDepth}

\* `for &style_var in style_vars { self.push_style_var(style_var) }` and the same loop
\* of with_color_vars: element 0 is pushed first.
RECURSIVE PushAll(_, _)
PushAll(stk, slice) ==
    IF slice = <<>> THEN stk ELSE PushAll(EnginePush(stk, Head(slice)), Tail(slice))

\* What each helper does to its stack before the body and after it.
with_id_push(stk, id) == push_id(stk, id)
with_id_pop(stk) == pop_id(stk)
with_item_width_push(stk, width) == push_item_width(stk, width)
with_item_width_pop(stk) == pop_item_width(stk)
with_style_var_push(stk, style_var) == EnginePush(stk, style_var)
with_style_var_pop(stk) == EnginePop(stk, 1)
\* a with_style_vars that walks the slice from its end
RECURSIVE PushAllReversed(_, _)
PushAllReversed(stk, slice) ==
    IF slice = <<>> THEN stk
    ELSE PushAllReversed(EnginePush(stk, slice[Len(slice)]), SubSeq(slice, 1, Len(slice) - 1))
with_style_vars_push_reversed(stk, style_vars) == PushAllReversed(stk, style_vars)
\* a with_color_vars that pops one entry whatever the slice
with_color_vars_pop_one(stk, color_vars) == EnginePop(stk, 1)

with_style_vars_push(stk, style_vars) == PushAll(stk, style_vars)
with_style_vars_pop(stk, style_vars) == EnginePop(stk, Len(style_vars))
with_color_var_push(stk, color) == EnginePush(stk, color)
with_color_var_pop(stk) == EnginePop(stk, 1)
with_color_vars_push(stk, color_vars) == PushAll(stk, color_vars)
with_color_vars_pop(stk, color_vars) == EnginePop(stk, Len(color_vars))

\* The engine calls a helper makes around its body, in program order: a push of value
\* v on stack k is <<"push", k, v>>, a pop of n values from stack k is <<"pop", k, n>>.
PushCalls(k, slice) == [i \in 1..Len(slice) |-> <<"push", k, slice[i]>>]

\* with_style_vars and with_color_vars: the loop of pushes, f(), one pop of the length
with_style_vars_calls(style_vars) ==
    [before |-> PushCalls("style", style_vars),
     after  |-> << <<"pop", "style", Len(style_vars)>> >>]
with_color_vars_calls(color_vars) ==
    [before |-> PushCalls("color", color_vars),
     after  |-> << <<"pop", "color", Len(color_vars)>> >>]

\* a with_style_and_color_vars that pops the style variables first
with_style_and_color_vars_calls_style_first(style_vars, color_vars) ==
    LET s == with_style_vars_calls(style_vars)
        c == with_color_vars_calls(color_vars)
    IN  [before |-> s.before \o c.before, after |-> s.after \o c.after]

\* with_style_and_color_vars: with_style_vars(style_vars, || with_color_vars(color_vars, f)),
\* so the calls of with_color_vars lie inside those of with_style_vars.
with_style_and_color_vars_calls(style_vars, color_vars) ==
    LET s == with_style_vars_calls(style_vars)
        c == with_color_vars_calls(color_vars)
    IN  [before |-> s.before \o c.before, after |-> c.after \o s.after]

\* The engine executing a sequence of calls on its stacks, up to the first fatal one:
\* res is [stack, fatal, popped], popped counting the values asked to be popped.
RECURSIVE ApplyCalls(_, _)
ApplyCalls(res, calls) ==
    IF calls = <<>> \/ res.fatal THEN res
    ELSE LET c == Head(calls)
             k == c[2]
         IN  IF c[1] = "push"
             THEN ApplyCalls([res EXCEPT !.stack[k] = EnginePush(@, c[3])], Tail(calls))
             ELSE LET p == EnginePop(res.stack[k], c[3])
                  IN  ApplyCalls([stack  |-> [res.stack EXCEPT ![k] = p.stack],
                                  fatal  |-> p.fatal,
                                  popped |-> [res.popped EXCEPT ![k] = @ + c[3]]],
                                 Tail(calls))
Applied(stk, calls) ==
    ApplyCalls([stack |-> stk, fatal |-> FALSE, popped |-> [k \in Kinds |-> 0]], calls)

Helpers == {"with_id", "with_item_width", "with_style_var", "with_style_vars",
            "with_color_var", "with_color_vars", "with_style_and_color_vars"}

\* the stack a helper pushes its first argument on
KindOf(h) ==
    CASE h = "with_id" -> "id"
      [] h = "with_item_width" -> "width"
      [] h \in {"with_color_var", "with_color_vars"} -> "color"
      [] OTHER -> "style"

\* the calls of helper h around its body
CallsOf(h, main, colors) ==
    CASE h = "with_style_and_color_vars" -> with_style_and_color_vars_calls(main, colors)
      [] h \in {"with_color_var", "with_color_vars"} -> with_color_vars_calls(main)
      [] OTHER -> [before |-> PushCalls(KindOf(h), main),
                   after  |-> << <<"pop", KindOf(h), Len(main)>> >>]

\* A helper h called through r with the values `main` (and, for
\* with_style_and_color_vars, the color values `colors`) has pushed and now runs its
\* body: `pushed` are the stacks after the pushes.
Enter(h, r, main, colors, pushed) ==
    /\ status = "running"
    /\ pending = NoPending
    /\ rendering = Null
    /\ GImGui # Null
    /\ Depth + Len(main) + Len(colors) <= MaxDepth
    /\ stack' = pushed
    /\ net' = [k \in Kinds |->
                 net[k] + (IF k = KindOf(h) THEN Len(main) ELSE 0)
                        + (IF k = "color" /\ h = "with_style_and_color_vars"
                           THEN Len(colors) ELSE 0)]
    /\ callStack' = Append(callStack,
                      [h |-> h, main |-> main, colors |-> colors, before |-> stack])
    /\ lastOp' = [Call(h, r[1], r[2]) EXCEPT !.args = CallsOf(h, main, colors).before]
    /\ UNCHANGED <<drawVars, lifeVars, sessVars, scopes, status>>

Ui_with_id(r, id) ==
    Enter("with_id", r, <<id>>, <<>>,
          [stack EXCEPT !["id"] = with_id_push(@, id)])
Ui_with_item_width(r, w) ==
    Enter("with_item_width", r, <<w>>, <<>>,
          [stack EXCEPT !["width"] = with_item_width_push(@, w)])
Ui_with_style_var(r, v) ==
    Enter("with_style_var", r, <<v>>, <<>>,
          [stack EXCEPT !["style"] = with_style_var_push(@, v)])
Ui_with_style_vars(r, style_vars) ==
    Enter("with_style_vars", r, style_vars, <<>>,
          [stack EXCEPT !["style"] = with_style_vars_push(@, style_vars)])
Ui_with_color_var(r, v) ==
    Enter("with_color_var", r, <<v>>, <<>>,
          [stack EXCEPT !["color"] = with_color_var_push(@, v)])
Ui_with_color_vars(r, color_vars) ==
    Enter("with_color_vars", r, color_vars, <<>>,
          [stack EXCEPT !["color"] = with_color_vars_push(@, color_vars)])
\* with_style_vars(style_vars, || with_color_vars(color_vars, f))
Ui_with_style_and_color_vars(r, style_vars, color_vars) ==
    Enter("with_style_and_color_vars", r, style_vars, color_vars,
          Applied(stack, with_style_and_color_vars_calls(style_vars, color_vars).before).stack)

\* The pops of helper a.h once its body has returned: [stack, fatal, popped].
Pops(a) ==
    LET k == KindOf(a.h)
        one(res, n) == [stack |-> [stack EXCEPT ![k] = res.stack],
                        fatal |-> res.fatal, popped |-> [kk \in Kinds |-> IF kk = k THEN n ELSE 0]]
    IN CASE a.h = "with_id" -> one(with_id_pop(stack[k]), 1)
         [] a.h = "with_item_width" -> one(with_item_width_pop(stack[k]), 1)
         [] a.h = "with_style_var" -> one(with_style_var_pop(stack[k]), 1)
         [] a.h = "with_style_vars" -> one(with_style_vars_pop(stack[k], a.main), Len(a.main))
         [] a.h = "with_color_var" -> one(with_color_var_pop(stack[k]), 1)
         [] a.h = "with_color_vars" -> one(with_color_vars_pop(stack[k], a.main), Len(a.main))
         [] OTHER -> Applied(stack, with_style_and_color_vars_calls(a.main, a.colors).after)

Sum(f) == f["id"] + f["width"] + f["style"] + f["color"]

\* The body of the innermost helper returns: the helper pops and returns.
BodyReturn ==
    /\ status = "running"
    /\ callStack # <<>>
    /\ callStack[Len(callStack)].h \in Helpers
    /\ LET a == callStack[Len(callStack)]
           res == Pops(a)
       IN /\ stack' = res.stack
          /\ net' = [k \in Kinds |-> net[k] - res.popped[k]]
          /\ status' = IF res.fatal THEN "aborted" ELSE status
          /\ lastOp' = [Call("body_return", Null, a.h) EXCEPT
                          !.args = CallsOf(a.h, a.main, a.colors).after,
                          !.exit =
                          [h |-> a.h, how |-> IF res.fatal THEN "fatal" ELSE "return",
                           main |-> a.main, colors |-> a.colors,
                           pushed |-> Len(a.main) + Len(a.colors),
                           popped |-> Sum(res.popped),
                           before |-> a.before]]
    /\ callStack' = SubSeq(callStack, 1, Len(callStack) - 1)
    /\ UNCHANGED <<drawVars, lifeVars, sessVars, scopes>>

\* The body of the innermost helper panics.  No helper holds a guard value and the
\* statement after `f();` is skipped, so the unwinding leaves every helper on the
\* call stack without a pop; the panic is caught by the caller of the outermost one.
BodyUnwind ==
    /\ status = "running"
    /\ callStack # <<>>
    /\ LET a == callStack[Len(callStack)]
       IN lastOp' = [Call("body_unwind", Null, a.h) EXCEPT !.exit =
                       [h |-> a.h, how |-> "unwind",
                        main |-> a.main, colors |-> a.colors,
                        pushed |-> Len(a.main) + Len(a.colors), popped |-> 0,
                        before |-> a.before]]
    /\ callStack' = <<>>
    /\ UNCHANGED <<drawVars, lifeVars, sessVars, stack, net, scopes, status>>

\* ------------------------------------------------------------ Begin..End blocks
\* main_menu_bar, menu_bar, popup, tooltip and group: a Begin call of the engine, the
\* body, and the matching End call.
Blocks == {"main_menu_bar", "menu_bar", "popup", "tooltip", "group"}

\* sys::BeginMainMenuBar, sys::BeginMenuBar and sys::BeginPopup return a bool;
\* sys::BeginTooltip and sys::BeginGroup return nothing and always open their scope.
BeginAnswers(h) == IF h \in {"tooltip", "group"} THEN {TRUE} ELSE BOOLEAN

\* The engine's Begin call of block h answering `opened`: a scope is opened, and has
\* to be ended, only if the answer is true.
EngineBegin(open, h, opened) == IF opened THEN Append(open, h) ELSE open

\* The engine's End call of block h: fatal unless the innermost open scope is h's.
EngineEnd(open, h) ==
    IF open = <<>> \/ open[Len(open)] # h
    THEN [scopes |-> open, fatal |-> TRUE]
    ELSE [scopes |-> SubSeq(open, 1, Len(open) - 1), fatal |-> FALSE]

\* a block that runs its body and ends whatever Begin returned
block_runs_body_always(h, render) == TRUE

\* `let render = unsafe { sys::Begin..() }; if render { f(); unsafe { sys::End..() } }`
\* in main_menu_bar, menu_bar and popup; `sys::Begin..(); f(); sys::End..();` in
\* tooltip and group.
block_runs_body(h, render) == IF h \in {"tooltip", "group"} THEN TRUE ELSE render

\* Block h called through r, up to the start of its body or, when the body is not
\* run, to its return; render is the engine's answer to Begin.
Ui_block(r, h, render) ==
    /\ CanOperate
    /\ rendering = Null
    /\ GImGui # Null
    /\ scopes' = EngineBegin(scopes, h, render)
    /\ callStack' = IF block_runs_body(h, render)
                    THEN Append(callStack,
                           [h |-> h, main |-> <<>>, colors |-> <<>>, before |-> stack])
                    ELSE callStack
    /\ lastOp' = [Call(h, r[1], r[2]) EXCEPT
                     !.args = << <<"Begin", h, render>> >>
                              \o (IF block_runs_body(h, render) THEN << <<"body", h>> >>
                                  ELSE <<>>)]
    /\ UNCHANGED <<drawVars, lifeVars, sessVars, stack, net, status>>

\* The body of the innermost block returns: the block calls End and returns.
BlockReturn ==
    /\ status = "running"
    /\ callStack # <<>>
    /\ LET a == callStack[Len(callStack)]
           res == EngineEnd(scopes, a.h)
       IN /\ a.h \in Blocks
          /\ scopes' = res.scopes
          /\ status' = IF res.fatal THEN "aborted" ELSE status
          /\ lastOp' = [Call("block_return", Null, a.h) EXCEPT
                          !.args = << <<"End", a.h>> >>]
    /\ callStack' = SubSeq(callStack, 1, Len(callStack) - 1)
    /\ UNCHANGED <<drawVars, lifeVars, sessVars, stack, net>>

\* ------------------------------------------------------------ specifications
\* ImGui::init and Drop for ImGui
NextContext ==
    \/ ImGui_init
    \/ \E c \in DOMAIN imgui : ImGui_drop(c)
    \/ ImGui_drop_destroy

\* the filename setters
NextConfig ==
    \/ \E c \in DOMAIN imgui, f \in {"ini_filename", "log_filename"}, some \in BOOLEAN :
          SetFilenameWrite(c, f, some)
    \/ SetFilenameStore
    \/ SetFilenameNull

\* the input written ahead of a frame
NextInput ==
    \/ \E c \in DOMAIN imgui, x \in MousePositions : ImGui_set_mouse_pos(c, x)
    \/ \E c \in DOMAIN imgui : ImGui_input_state(c)
    \/ ImGui_input_null

\* frame sessions
NextSession ==
    \/ \E c \in DOMAIN imgui, a \in OneFrameArgs : ImGui_frame(c, a[1], a[2], a[3])
    \/ ImGui_frame_null
    \/ \E s \in handles : Ui_drop(s)
    \/ \E s \in handles, dd \in OneRenderOutput : Ui_render_call(s, dd)
    \/ Ui_render_null
    \/ \E res \in {"Ok", "Err"} : Ui_render_return(res)

\* the push and pop operations of Ui, issued through the sessions R
StackOps(R) ==
    \/ \E r \in R, v \in Ids : Ui_push_id(r, v)
    \/ \E r \in R : Ui_pop_id(r)
    \/ \E r \in R, v \in Widths : Ui_push_item_width(r, v)
    \/ \E r \in R : Ui_pop_item_width(r)

\* the with_* helpers of Ui that push on one stack, called through the sessions R, and
\* the end of their bodies
WithOps(R) ==
    \/ \E r \in R, v \in Ids : Len(callStack) < MaxNest /\ Ui_with_id(r, v)
    \/ \E r \in R, v \in Widths : Len(callStack) < MaxNest /\ Ui_with_item_width(r, v)
    \/ \E r \in R, v \in Vals : Len(callStack) < MaxNest /\ Ui_with_style_var(r, v)
    \/ \E r \in R, sl \in Slices : Len(callStack) < MaxNest /\ Ui_with_style_vars(r, sl)
    \/ \E r \in R, v \in Vals : Len(callStack) < MaxNest /\ Ui_with_color_var(r, v)
    \/ \E r \in R, sl \in Slices : Len(callStack) < MaxNest /\ Ui_with_color_vars(r, sl)
    \/ BodyReturn
    \/ BodyUnwind

\* with_style_and_color_vars, called through the sessions R
WithBoth(R) ==
    \E r \in R, p \in SlicePairs :
        Len(callStack) < MaxNest /\ Ui_with_style_and_color_vars(r, p[1], p[2])

\* Helpers nested in each other, with pushes and pops of identifiers in their bodies.
NestedOps(R) ==
    \/ \E r \in R, v \in Ids : Ui_push_id(r, v)
    \/ \E r \in R : Ui_pop_id(r)
    \/ \E r \in R, v \in Ids : Len(callStack) < MaxNest + 1 /\ Ui_with_id(r, v)
    \/ \E r \in R, p \in SlicePairs :
          Len(callStack) < MaxNest + 1 /\ Ui_with_style_and_color_vars(r, p[1], p[2])
    \/ BodyReturn

\* Contexts and their configuration strings.
SpecConfig == Init /\ [][NextContext \/ NextConfig]_vars

\* Contexts whose creation by the engine may fail, and their configuration strings.
SpecCreate == Init /\ [][NextContext \/ ImGui_init_null \/ NextConfig]_vars

\* Contexts, frame sessions and the operations issued through them, by every way a
\* session can be reached.
SpecSession == Init /\ [][NextContext \/ NextSession \/ StackOps(Reach) \/ Ui_op_null]_vars

\* Contexts, their input, frame sessions and the operations issued through them.
SpecInput ==
    Init /\ [][NextContext \/ NextInput \/ NextSession \/ StackOps(Reach) \/ Ui_op_null]_vars

\* One frame of one context, the stack operations and helpers issued through the Ui
\* that frame returned, and its render.
FirstInit == contexts = {} /\ ImGui_init
FirstFrame ==
    \E c \in DOMAIN imgui, a \in OneFrameArgs : sessions = <<>> /\ ImGui_frame(c, a[1], a[2], a[3])
Render ==
    \/ \E s \in handles, dd \in OneRenderOutput : Ui_render_call(s, dd)
    \/ \E res \in {"Ok", "Err"} : Ui_render_return(res)

SpecStack ==
    Init /\ [][FirstInit \/ FirstFrame \/ Render \/ StackOps(Held) \/ WithOps(Held)]_vars

\* The same with every with_* helper.
SpecHelpers ==
    Init /\ [][FirstInit \/ FirstFrame \/ Render \/ StackOps(Held) \/ WithOps(Held)
                 \/ WithBoth(Held)]_vars

\* One frame of one context and the helpers nested in each other in it.
SpecNest == Init /\ [][FirstInit \/ FirstFrame \/ NestedOps(Held)]_vars

\* the Begin..End blocks of Ui, nested in each other, with pushes and pops of
\* identifiers in their bodies
BlockOps(R) ==
    \/ \E r \in R, h \in Blocks, render \in BOOLEAN :
          /\ Len(callStack) < MaxNest + 1
          /\ render \in BeginAnswers(h)
          /\ Ui_block(r, h, render)
    \/ BlockReturn
    \/ \E r \in R, v \in Ids : Ui_push_id(r, v)
    \/ \E r \in R : Ui_pop_id(r)

\* One frame of one context and the Begin..End blocks issued in it.
SpecBlocks == Init /\ [][FirstInit \/ FirstFrame \/ BlockOps(Held)]_vars

\* One context and its frames, begun with every size.
Frames == \E c \in DOMAIN imgui, a \in FrameArgs : ImGui_frame(c, a[1], a[2], a[3])
DropUi == \E s \in handles : Ui_drop(s)
SpecFrame == Init /\ [][FirstInit \/ Frames \/ DropUi]_vars

\* One context, its frames, and what the render callback does with the draw data.
OneFrames == \E c \in DOMAIN imgui, a \in OneFrameArgs : ImGui_frame(c, a[1], a[2], a[3])
RenderDraw ==
    \/ \E s \in handles, dd \in RenderOutputs : Ui_render_call(s, dd)
    \/ \E res \in {"Ok", "Err"} : Ui_render_return(res)
DrawOps ==
    \/ DrawData_into_iter
    \/ DrawListIterator_next
    \/ DrawData_deindex_all_buffers
SpecDraw == Init /\ [][FirstInit \/ OneFrames \/ DropUi \/ RenderDraw \/ DrawOps]_vars

Next ==
    \/ NextContext \/ ImGui_init_null \/ NextConfig \/ NextInput \/ NextSession \/ Frames \/ RenderDraw
    \/ DrawOps \/ StackOps(Reach) \/ Ui_op_null \/ WithOps(Reach) \/ WithBoth(Reach)

Spec == Init /\ [][Next]_vars

\* ------------------------------------------------------------ claims
\* the names lastOp gives to the operations issued through a session
SessionOps == {"push_id", "pop_id", "push_item_width", "pop_item_width"} \cup Helpers

\* the sessions through which an operation can be issued now
ActiveSessions == handles \cup ({rendering, CURRENT_UI} \ {Null})

\* the session begun last on the ImGui c
Latest(c) ==
    CHOOSE s \in 1..Len(sessions) :
        /\ sessions[s].imgui = c
        /\ \A t \in 1..Len(sessions) : sessions[t].imgui = c => t <= s

\* C1: in every reachable state at most one frame session is active (usable by the
\* caller, through a Ui it holds or through CURRENT_UI).
C1_AtMostOneActiveSession == Cardinality(ActiveSessions) <= 1

\* C2: once ImGui::frame has begun a newer session on a context, no operation is
\* executed through an earlier session of that context: every operation executed is
\* issued through the latest session of its context.
C2_NoOpThroughStaleSession ==
    lastOp.name \in SessionOps => lastOp.sid = Latest(sessions[lastOp.sid].imgui)

\* an operation was executed while an earlier session of the same context had been
\* begun and never rendered
C2_Witness ==
    /\ lastOp.name \in SessionOps
    /\ \E s \in 1..Len(sessions) :
          /\ s < lastOp.sid
          /\ sessions[s].imgui = sessions[lastOp.sid].imgui
          /\ sessions[s].renders = 0

\* C3: every call of Ui::render leaves CURRENT_UI empty when it returns, whatever the
\* callback returned.
C3_RenderEmptiesSlot == lastOp.name = "render_return" => CURRENT_UI = Null

\* C4: render is performed at most once per session, and after it has returned no
\* operation of that session is executed, through the Ui or through Ui::current_ui.
C4_NoOpAfterRender ==
    /\ \A s \in 1..Len(sessions) : sessions[s].renders <= 1
    /\ lastOp.name \in SessionOps => lastOp.sid \notin rendered

\* C5: every with_* helper performs as many pops as it performed pushes, when its body
\* returns and when its body unwinds.
C5_PopsEqualPushes ==
    lastOp.exit.how \in {"return", "unwind"} => lastOp.exit.popped = lastOp.exit.pushed

\* C6: a pop_id or pop_item_width on an empty stack ends in the fatal abort state with
\* the stack untouched, and no step is taken after a fatal condition.
C6_PopOnEmptyAborts ==
    [][/\ status = "running"
       /\ (\/ lastOp'.name = "pop_id" /\ stack["id"] = <<>>
           \/ lastOp'.name = "pop_item_width" /\ stack["width"] = <<>>)
          => (status' = "aborted" /\ stack' = stack)]_vars

\* pop_id was called on an empty identifier stack
C6_Witness == lastOp.name = "pop_id" /\ status = "aborted" /\ net["id"] < 0

\* C7: for each stack kind, while the pushes and pops issued in the frame are stack
\* legal the depth equals pushes minus pops and no fatal condition is raised (a fatal
\* condition means some kind has seen more pops than pushes); so the stack is empty
\* when the pushes and pops are equal in number, also when render is called.
C7_BalancedStacks ==
    /\ status = "running" => \A k \in Kinds : Len(stack[k]) = net[k]
    /\ status = "aborted" => \E k \in Kinds : net[k] < 0
    /\ (rendering # Null /\ \A k \in Kinds : net[k] = 0) => stack = EmptyStacks

\* a pop has just succeeded and left every stack empty at equal pushes and pops
C7_Witness ==
    /\ lastOp.name \in {"pop_id", "pop_item_width"}
    /\ status = "running"
    /\ \A k \in Kinds : net[k] = 0 /\ stack[k] = <<>>

\* C8: with_style_vars and with_color_vars push the slice in order, element 0 deepest,
\* above what the stack held; while the body runs those entries stay in place; when
\* the body has returned exactly Len(slice) entries are popped and the stack holds
\* what it held before the call (nothing pushed or popped for an empty slice).
C8_SliceOrderAndRestore ==
    /\ \A i \in 1..Len(callStack) :
          LET a == callStack[i]
              k == KindOf(a.h)
          IN  (a.h \in {"with_style_vars", "with_color_vars"} /\ status = "running")
                => SubSeq(stack[k], 1, Len(a.before[k]) + Len(a.main)) = a.before[k] \o a.main
    /\ (lastOp.exit.h \in {"with_style_vars", "with_color_vars"} /\ lastOp.exit.how = "return")
          => /\ stack[KindOf(lastOp.exit.h)] = lastOp.exit.before[KindOf(lastOp.exit.h)]
             /\ lastOp.exit.popped = Len(lastOp.exit.main)
             /\ lastOp.exit.pushed = Len(lastOp.exit.main)

\* with_color_vars has returned after pushing two different values
C8_Witness ==
    /\ lastOp.exit.h = "with_color_vars"
    /\ lastOp.exit.how = "return"
    /\ lastOp.exit.main = <<1, 2>>

\* C9: at most one engine context exists at any time, and while an ImGui lives the
\* engine's current context is the one it owns.
C9_SingleContext ==
    /\ Cardinality(contexts) <= 1
    /\ \A c \in DOMAIN imgui : GImGui = c

\* C10: in every state, also inside a setter, IniFilename and LogFilename of every
\* engine context are null or point to a buffer that is not freed; and outside the
\* setters the pointers of an ImGui's context are null exactly when its owned field is
\* None and otherwise point to the buffer that field owns.
C10_FilenamePointersValid ==
    /\ \A c \in DOMAIN io :
          /\ io[c].IniFilename \in heap \cup {Null}
          /\ io[c].LogFilename \in heap \cup {Null}
    /\ pending = NoPending
          => \A c \in DOMAIN imgui :
                /\ io[c].IniFilename = imgui[c].ini_filename
                /\ io[c].LogFilename = imgui[c].log_filename

\* C11: dropping an ImGui destroys its engine context, once (the engine contexts alive
\* are exactly those of the ImGui values alive); CURRENT_UI is emptied before the
\* engine context is destroyed; and after the drop no session of that ImGui is active
\* or used and no operation of that ImGui is executed.
C11_DropIsLast ==
    /\ contexts = DOMAIN imgui
    /\ pending.field = "drop" => (CURRENT_UI = Null /\ pending.self \in contexts)
    /\ \A s \in ActiveSessions : sessions[s].imgui \in contexts
    /\ (lastOp.sid # Null /\ lastOp.name # "drop_ui")
          => sessions[lastOp.sid].imgui \in DOMAIN imgui

\* an ImGui has been dropped while CURRENT_UI held a session of it that was never
\* rendered
C11_Witness ==
    /\ lastOp.name = "drop_imgui_return"
    /\ \E s \in 1..Len(sessions) :
          sessions[s].imgui \notin DOMAIN imgui /\ sessions[s].renders = 0

\* C12: when the engine creates no context, ImGui::init fails fatally: no ImGui value
\* without an engine context exists, and no operation is run while the engine has no
\* context to run it on.
C12_InitFailsFatally ==
    /\ Null \notin DOMAIN imgui
    /\ status # "crashed"

\* C13: ImGui::frame never divides by zero: on each axis the framebuffer scale written
\* to the engine is 0 when the logical size is 0 and pixel size / logical size
\* otherwise; so logical size (0,0) gives scale (0,0) for every pixel size, and equal
\* non-zero sizes give scale 1.
C13_ScaleNeverDividesByZero ==
    (lastOp.name = "frame" /\ lastOp.sid # Null) =>
        LET points == lastOp.args[1]
            pixels == lastOp.args[2]
            scale == io[GImGui].DisplayFramebufferScale
        IN  /\ io[GImGui].DisplaySize = points
            /\ \A a \in {1, 2} :
                  /\ scale[a].den >= 1
                  /\ points[a] = 0 => scale[a] = Zero
                  /\ points[a] # 0 => scale[a].num * points[a] = pixels[a] * scale[a].den
                  /\ (points[a] # 0 /\ points[a] = pixels[a]) => scale[a] = One
            /\ points = <<0, 0>> => scale = <<Zero, Zero>>

\* a frame was begun with logical width 0 and non-zero pixel width, and with equal
\* non-zero logical and pixel heights
C13_Witness ==
    /\ lastOp.name = "frame"
    /\ lastOp.sid # Null
    /\ lastOp.args[1] = <<0, 2>>
    /\ lastOp.args[2] = <<1, 2>>
    /\ io[GImGui].DisplayFramebufferScale = <<Zero, One>>

\* the callback of render holds the DrawData it was handed
HasDrawData == rendering # Null /\ rendering \in views

\* every DrawList that iterating the DrawData yields, in the order yielded
RECURSIVE Drain(_)
Drain(it) == IF it.rest = <<>> THEN it.out ELSE Drain(next(it))
Yielded(raw) == Drain(into_iter(raw))

\* C14: when the engine's draw data is not valid as Ui::render runs, the DrawData handed
\* to the callback is empty: its draw-list count is 0 and iterating it yields nothing.
C14_InvalidDrawDataIsEmpty ==
    (HasDrawData /\ ~is_valid(drawData))
        => (draw_list_count(drawData) = 0 /\ Yielded(drawData) = <<>>)

C16_TotalsAreSums ==
    HasDrawData =>
        /\ total_vtx_count(drawData) = SumLen(Yielded(drawData), "vtx_buffer")
        /\ total_idx_count(drawData) = SumLen(Yielded(drawData), "idx_buffer")

\* a callback holds two draw lists with three vertices and one index in all
C16_Witness ==
    /\ HasDrawData
    /\ Len(Yielded(drawData)) = 2
    /\ total_vtx_count(drawData) = 3
    /\ total_idx_count(drawData) = 1

\* C17: an iterator over a DrawData yields its draw_list_count() lists in the engine's
\* order, each with the buffers of its own list; once it has returned None it stays
\* ended; it only moves forward; and into_iter and next leave the draw data as it is.
C17_IterationYieldsAllLists ==
    [][iter' # <<>> =>
         LET it == iter'[1]
             all == [i \in 1..Len(drawData'.CmdLists) |-> DrawList(drawData'.CmdLists[i])]
         IN  /\ drawData' = drawData
             /\ Len(it.out) + Len(it.rest) = draw_list_count(drawData')
             /\ it.out = SubSeq(all, 1, Len(it.out))
             /\ it.ended => (it.rest = <<>> /\ it.out = all)
             /\ lastOp'.name = "next" =>
                   /\ SubSeq(it.out, 1, Len(iter[1].out)) = iter[1].out
                   /\ Len(it.rest) <= Len(iter[1].rest)
                   /\ iter[1].rest = <<>> => (it.ended /\ it.out = iter[1].out)
                   /\ iter[1].rest # <<>> => Len(it.out) = Len(iter[1].out) + 1]_vars

\* next has returned None after two different draw lists
C17_Witness ==
    /\ lastOp.name = "next"
    /\ iter # <<>>
    /\ iter[1].ended
    /\ Len(iter[1].out) = 2
    /\ iter[1].out[1] # iter[1].out[2]

\* C18: deindex_all_buffers turns every draw list's index buffer into 0..N-1 and its
\* vertex buffer into one of the length N of the original index buffer, and a second
\* application changes nothing.
C18_DeindexIdempotent ==
    [][lastOp'.name = "deindex_all_buffers" =>
         /\ Len(drawData'.CmdLists) = Len(drawData.CmdLists)
         /\ \A i \in 1..Len(drawData.CmdLists) :
               /\ drawData'.CmdLists[i].IdxBuffer = Identity(Len(drawData.CmdLists[i].IdxBuffer))
               /\ Len(drawData'.CmdLists[i].VtxBuffer) = Len(drawData.CmdLists[i].IdxBuffer)
         /\ deindex_all_buffers(drawData') = drawData'
         /\ lastOp.name = "deindex_all_buffers" => drawData' = drawData]_vars

\* deindex_all_buffers has reordered the vertices of a list
C18_Witness ==
    /\ lastOp.name = "deindex_all_buffers"
    /\ \E i \in 1..Len(drawData.CmdLists) : drawData.CmdLists[i].VtxBuffer = <<2, 1>>

\* the names lastOp gives to the input operations of ImGui
InputOps == {"set_mouse_pos", "input_state"}

\* C19: stack operations and render are executed only through a session that is
\* Active (begun by frame, its render not yet returned); while a session handle is
\* held no input setter and no input_state is executed; and the input written before
\* frame stays as it is while the handle is held.
C19_OpsOnlyWhileActive ==
    [][/\ (lastOp'.name \in SessionOps \cup {"render_call"} /\ lastOp'.sid # Null)
             => lastOp'.sid \notin rendered
       /\ lastOp'.name \in InputOps => (handles = {} /\ rendering = Null)
       /\ ((handles # {} \/ rendering # Null) /\ GImGui # Null /\ GImGui' = GImGui)
             => io'[GImGui].MousePos = io[GImGui].MousePos]_vars

\* C20: in set_ini_filename and set_log_filename with a Some value the string is
\* stored in the owned field before the engine pointer is written: whenever a step
\* writes the pointer, the field of that ImGui already owns the buffer written.
C20_FieldStoredBeforePointer ==
    [][(lastOp'.name = "set_filename_write" /\ pending'.value # Null)
          => imgui'[pending'.self][pending'.field] = pending'.value]_vars

\* C21: one call of ImGui::frame writes display size, framebuffer scale and delta time
\* to the engine IO, then invokes sys::NewFrame exactly once, then sets CURRENT_UI and
\* returns the Ui: NewFrame finds this call's size, scale and delta time, never those
\* of the previous frame, and does not yet find the new session in the slot.
C21_FrameStepOrder ==
    (lastOp.name = "frame" /\ lastOp.sid # Null) =>
        LET seen == lastOp.args[4] IN
        /\ Len(seen) = 1
        /\ seen[1].DisplaySize = lastOp.args[1]
        /\ seen[1].DeltaTime = lastOp.args[3]
        /\ seen[1].DisplayFramebufferScale = io[GImGui].DisplayFramebufferScale
        /\ seen[1].slot = IF lastOp.sid = 1 THEN Null ELSE lastOp.sid - 1
        /\ CURRENT_UI = lastOp.sid
        /\ lastOp.sid \in handles

\* a second frame was begun with a display size and scale other than the first frame's
C21_Witness ==
    /\ lastOp.name = "frame"
    /\ lastOp.sid = 2
    /\ lastOp.args[5].DisplaySize # lastOp.args[1]
    /\ lastOp.args[5].DisplayFramebufferScale # io[GImGui].DisplayFramebufferScale

\* C22: CURRENT_UI is set only by ImGui::frame (to the session it begins) and emptied
\* only by a Ui::render whose callback returned Ok or by the drop of an ImGui; the drop
\* of a Ui that was not rendered and a render whose callback returned Err leave the
\* slot as it was, so Ui::current_ui goes on returning the session it held.
C22_SlotSetAndEmptied ==
    [][/\ (CURRENT_UI' # CURRENT_UI /\ CURRENT_UI' # Null)
             => (lastOp'.name = "frame" /\ CURRENT_UI' = lastOp'.sid)
       /\ (CURRENT_UI' # CURRENT_UI /\ CURRENT_UI' = Null)
             => \/ lastOp'.name = "render_return" /\ lastOp'.via = "Ok"
                \/ lastOp'.name = "drop_imgui"
       /\ (lastOp'.name = "frame" /\ lastOp'.sid # Null) => CURRENT_UI' = lastOp'.sid
       /\ (lastOp'.name = "render_return" /\ lastOp'.via = "Ok") => CURRENT_UI' = Null
       /\ lastOp'.name = "drop_imgui" => CURRENT_UI' = Null
       /\ lastOp'.name = "drop_ui" => CURRENT_UI' = CURRENT_UI
       /\ (lastOp'.name = "render_return" /\ lastOp'.via = "Err") => CURRENT_UI' = CURRENT_UI]_vars

\* a render whose callback returned Err has returned and CURRENT_UI still holds its session
C22_Witness ==
    /\ lastOp.name = "render_return"
    /\ lastOp.via = "Err"
    /\ CURRENT_UI = lastOp.sid
    /\ current_ui = lastOp.sid

\* C23: each Ui::render invokes the engine's render step once, before it fetches the
\* draw data; it then invokes the callback once, with that draw data, while the session
\* is still in CURRENT_UI; and it returns Err exactly when the callback returned Err,
\* with neither the render step nor the callback done a second time.
C23_RenderOnceThenCallback ==
    /\ (lastOp.name = "render_call" /\ lastOp.sid # Null) =>
          /\ lastOp.args = <<1, <<1>>>>
          /\ rendering = lastOp.sid
          /\ rendering \in views
          /\ CURRENT_UI = lastOp.sid
    /\ rendering # Null => (sessions[rendering].renders = 1 /\ rendering \notin rendered)
    /\ lastOp.name = "render_return" =>
          /\ lastOp.args = <<lastOp.via>>
          /\ sessions[lastOp.sid].renders = 1

\* the values helper call a pushed on stack k
PushedValues(a, k) ==
    IF a.h = "with_style_and_color_vars" /\ k = "color" THEN a.colors
    ELSE IF k = KindOf(a.h) THEN a.main ELSE <<>>

\* a helper has pushed and enters its body: the pushed values lie on top of what the
\* stacks held; with_style_and_color_vars pushed every style variable, then every color
C24_BodySeesPushes ==
    (lastOp.name \in Helpers /\ lastOp.sid # Null) =>
        /\ callStack # <<>>
        /\ LET a == callStack[Len(callStack)]
           IN  /\ a.h = lastOp.name
               /\ \A k \in Kinds : stack[k] = a.before[k] \o PushedValues(a, k)
               /\ a.h = "with_style_and_color_vars" =>
                     lastOp.args = PushCalls("style", a.main) \o PushCalls("color", a.colors)

\* a helper pops only once its body has returned, with_style_and_color_vars the color
\* variables before the style variables
C24_PopsAfterBody ==
    lastOp.name = "body_return" =>
        /\ \A i \in 1..Len(lastOp.args) : lastOp.args[i][1] = "pop"
        /\ lastOp.exit.h = "with_style_and_color_vars" =>
              lastOp.args = << <<"pop", "color", Len(lastOp.exit.colors)>>,
                               <<"pop", "style", Len(lastOp.exit.main)>> >>

RECURSIVE RunningBlocks(_)
RunningBlocks(cs) ==
    IF cs = <<>> THEN <<>>
    ELSE IF Head(cs).h \in Blocks THEN <<Head(cs).h>> \o RunningBlocks(Tail(cs))
    ELSE RunningBlocks(Tail(cs))

\* C25: main_menu_bar, menu_bar and popup run the body if and only if Begin returned
\* true and call End if and only if Begin returned true, after the body; tooltip and
\* group always execute Begin, body, End in that order; so on normal completion every
\* executed Begin is matched by exactly one End and no End is issued without its Begin.
C25_BeginBodyEnd ==
    [][/\ (lastOp'.name \in Blocks /\ lastOp'.sid # Null) =>
             LET h == lastOp'.name
                 render == lastOp'.args[1][3]
                 runs == Len(callStack') = Len(callStack) + 1
             IN  /\ lastOp'.args[1] = <<"Begin", h, render>>
                 /\ h \in {"main_menu_bar", "menu_bar", "popup"} => (runs <=> render)
                 /\ h \in {"tooltip", "group"} => (runs /\ render)
                 /\ runs => /\ callStack'[Len(callStack')].h = h
                            /\ lastOp'.args = << <<"Begin", h, render>>, <<"body", h>> >>
                            /\ scopes' = Append(scopes, h)
                 /\ ~runs => (callStack' = callStack /\ scopes' = scopes)
       /\ lastOp'.name = "block_return" =>
             /\ lastOp'.args = << <<"End", lastOp'.via>> >>
             /\ callStack # <<>> /\ callStack[Len(callStack)].h = lastOp'.via
             /\ scopes = Append(scopes', lastOp'.via)
             /\ status' = "running"
       /\ scopes' # scopes => (lastOp'.name \in Blocks \cup {"block_return"})
       /\ scopes' = RunningBlocks(callStack')]_vars

\* inside the body of a group, the Begin of a menu_bar has returned false and the
\* menu_bar has returned without running its body and without an End
C25_Witness ==
    /\ lastOp.name = "menu_bar"
    /\ lastOp.args = << <<"Begin", "menu_bar", FALSE>> >>
    /\ RunningBlocks(callStack) = <<"group">>
    /\ scopes = <<"group">>
====
